---- MODULE Spec2Model ----
(***************************************************************************)
(* Session state machine and request-retry protocol of the qbit client     *)
(* (src/src/lib.rs): LoginState, Qbit::login, Qbit::request, the response  *)
(* classification of src/src/ext.rs and the construction of                *)
(* src/src/builder.rs, run by concurrent callers of one client handle      *)
(* against a server that may answer anything.                              *)
(***************************************************************************)
EXTENDS Integers, Sequences, FiniteSets, TLC

----------------------------------------------------------------------------
(* Bounds of the model                                                     *)

\* The server issues the session tokens 1..MaxTok, each at most once.
MaxTok == 3

\* Concurrent callers (tasks) sharing one client handle by reference.
Callers == {1, 2}

\* Credentials a client may be built with.
Credentials == {"admin", "guest"}

\* Cookies a client may be built with (never issued by the modelled server).
SuppliedCookies == {0}

\* Response statuses the server draws from: a 2xx, FORBIDDEN, another non-2xx.
Statuses == {200, 403, 500}

----------------------------------------------------------------------------
(* Option<T>                                                               *)

None == <<>>

Some(x) == <<x>>

is_none(o) == o = None

unwrap(o) == o[1]

----------------------------------------------------------------------------
(* reqwest::StatusCode                                                     *)

FORBIDDEN == 403

is_success(status) == status >= 200 /\ status < 300

----------------------------------------------------------------------------
(* enum LoginState and its methods                                         *)

CookieProvided(cookie) == [tag |-> "CookieProvided", cookie |-> cookie]

NotLoggedIn(credential) == [tag |-> "NotLoggedIn", credential |-> credential]

LoggedIn(cookie, credential) ==
    [tag |-> "LoggedIn", cookie |-> cookie, credential |-> credential]

as_cookie(self) ==
    CASE self.tag = "CookieProvided" -> Some(self.cookie)
      [] self.tag = "NotLoggedIn" -> None
      [] self.tag = "LoggedIn" -> Some(self.cookie)

as_credential(self) ==
    CASE self.tag = "CookieProvided" -> None
      [] self.tag = "NotLoggedIn" -> Some(self.credential)
      [] self.tag = "LoggedIn" -> Some(self.credential)

\* A faulty add_cookie: keeps the state it finds (the token is not recorded).
add_cookie_dropped(self, cookie) == self

\* A faulty add_cookie: overwrites a caller-supplied cookie too.
add_cookie_overwrites(self, cookie) ==
    IF self.tag = "CookieProvided"
    THEN CookieProvided(cookie)
    ELSE LoggedIn(cookie, self.credential)

\* A faulty add_cookie: stores the dummy credential instead of the one held.
add_cookie_dummy(self, cookie) ==
    IF self.tag = "CookieProvided"
    THEN self
    ELSE LoggedIn(cookie, "")

\* A variant of add_cookie that keeps the token issued later of the two.
add_cookie_keeps_newest(self, cookie) ==
    IF self.tag = "CookieProvided"
    THEN self
    ELSE IF self.tag = "LoggedIn" /\ self.cookie > cookie
         THEN self
         ELSE LoggedIn(cookie, self.credential)

add_cookie(self, cookie) ==
    IF self.tag = "CookieProvided"
    THEN self
    ELSE LoggedIn(cookie, self.credential)

----------------------------------------------------------------------------
(* builder.rs: IntoLoginState                                              *)

cookie_into_login_state(cookie) == CookieProvided(cookie)

credential_into_login_state(credential) == NotLoggedIn(credential)

----------------------------------------------------------------------------
(* ext.rs: ResponseExt::map_status, FromResponse for Cookie                *)

\* Result<Response>: <<"Ok">> or <<"Err", error>>
Ok == <<"Ok">>

Err(e) == <<"Err", e>>

\* A faulty login: no classifier, so the generic rule of map_status decides.
login_status_missing(code) == None

\* The classifier of the login call: 403 is IpBanned.
login_status(code) == IF code = FORBIDDEN THEN Some("IpBanned") ELSE None

\* A faulty request: every status that is not 2xx is taken for NotLoggedIn.
request_status_any_failure(code) ==
    IF is_success(code) THEN None ELSE Some("NotLoggedIn")

\* The classifier of request: 403 is NotLoggedIn.
request_status(code) == IF code = FORBIDDEN THEN Some("NotLoggedIn") ELSE None

\* classified is f(status), what the caller's classifier makes of the status.
map_status(status, classified) ==
    IF is_success(status)
    THEN Ok
    ELSE IF ~is_none(classified)
         THEN Err(unwrap(classified))
         ELSE IF status = FORBIDDEN THEN Err("NotLoggedIn") ELSE Ok

\* The Set-Cookie header of a response: absent, not ASCII, or a cookie.
Headers == {"absent", "nonascii", "cookie"}

cookie_from_response(header) ==
    CASE header = "absent" -> Err("BadResponse")
      [] header = "nonascii" -> Err("NonAsciiHeader")
      [] header = "cookie" -> Ok

----------------------------------------------------------------------------
(* The client handle (struct Qbit), its callers, and the server            *)

VARIABLES
    state,        \* Qbit.state: the LoginState inside the Mutex
    lock,         \* the callers holding the MutexGuard: Free or one caller
    poisoned,     \* the Mutex is poisoned: a caller panicked holding the guard
    built,        \* the LoginState the builder constructed
    issued,       \* the server has issued the tokens 1..issued
    deviated,     \* the server refused the credential, refused a token it
                  \* issued, or a transport failed
    recorded,     \* Option: the cookie most recently passed to add_cookie
    pc,           \* per caller: the position in login / request
    call,         \* per caller: the method it called: "login", "request",
                  \* "get_cookie" or a typed operation
    attempt,      \* per caller: the loop variable i of request
    force,        \* per caller: the argument force of the running login
    cookie_in,    \* per caller: Option, the cookie extracted from the login response
    sent,         \* per caller: Option, the COOKIE header of the call in flight
    result,       \* per caller: what the last call returned ("none" while running)
    evals,        \* per caller: <<force, a cookie was cached>> of every login
                  \* of this call, as its re_login test found them
    login_calls,  \* per caller: login calls sent during this call
    op_calls,     \* per caller: operation calls sent during this call
    op_resps,     \* per caller: statuses answered to them
    login_resp,   \* per caller: Option, <<status, header>> answered to the
                  \* last login call of this call
    login_ok,     \* per caller: every login of this call returned Ok(())
    got,          \* per caller: Option, the cookie get_cookie returned last
    code,         \* per caller: Option, the status an UnknownHttpCode carried
    config,       \* what the builder was given, and the client and basic-auth
                  \* credentials it set
    clone,        \* None, or the handle made by Qbit::clone: its own state,
                  \* the state it copied, and the cookie its logins recorded last
    display       \* None, or a Sep<T, C> being displayed: its list, its C,
                  \* the formatter's buffer, the element due next, the end

shared == <<state, lock, poisoned, built, issued, deviated, recorded>>

local == <<pc, call, attempt, force, cookie_in, sent, result>>

history == <<evals, login_calls, op_calls, op_resps, login_resp, login_ok>>

extra == <<got, code, config, clone, display>>

vars == <<shared, local, history, extra>>

Free == {}

MaxAttempts == 3

ApiErrors == {"NotLoggedIn", "IpBanned"}

Errors == ApiErrors \cup {"HttpError", "BadResponse", "NonAsciiHeader"}

\* What the builder is given: .credential(c) or .cookie(k); .client(..) or
\* not; .basic_auth_credentials(Some(..)), (None), or not.
LoginInputs ==
    {<<"credential", c>> : c \in Credentials} \cup {<<"cookie", k>> : k \in SuppliedCookies}

ClientInputs == {"unset", "given"}

BasicAuthInputs == {"unset", "none", "some"}

into_login_state(login) ==
    IF login[1] = "credential"
    THEN credential_into_login_state(login[2])
    ELSE cookie_into_login_state(login[2])

\* A faulty build: the basic-auth credentials, when given, are taken for the
\* credential of the session.
build_basic_auth_as_credential(login, client, basic) ==
    [state |-> IF basic = "some" THEN NotLoggedIn("basic") ELSE into_login_state(login),
     client |-> IF client = "unset" THEN "new" ELSE client,
     basic_auth_credentials |-> IF basic = "unset" THEN "none" ELSE basic]

\* QbitBuilder::build: without a client it takes reqwest::Client::new(),
\* without basic-auth credentials it takes None.
build(login, client, basic) ==
    [state |-> into_login_state(login),
     client |-> IF client = "unset" THEN "new" ELSE client,
     basic_auth_credentials |-> IF basic = "unset" THEN "none" ELSE basic]

\* The handle as built from one of the given inputs, with no call made yet.
InitWith(clients, basics) ==
    /\ \E login \in LoginInputs, client \in clients, basic \in basics :
         /\ built = build(login, client, basic).state
         /\ config = [login |-> login,
                       client |-> build(login, client, basic).client,
                       basic_auth_credentials |->
                           build(login, client, basic).basic_auth_credentials]
    /\ state = built
    /\ got = [p \in Callers |-> None]
    /\ code = [p \in Callers |-> None]
    /\ clone = None
    /\ lock = Free
    /\ poisoned = FALSE
    /\ issued = 0
    /\ deviated = FALSE
    /\ recorded = None
    /\ pc = [p \in Callers |-> "idle"]
    /\ call = [p \in Callers |-> "none"]
    /\ attempt = [p \in Callers |-> 0]
    /\ force = [p \in Callers |-> FALSE]
    /\ cookie_in = [p \in Callers |-> None]
    /\ sent = [p \in Callers |-> None]
    /\ result = [p \in Callers |-> "none"]
    /\ evals = [p \in Callers |-> <<>>]
    /\ login_calls = [p \in Callers |-> 0]
    /\ op_calls = [p \in Callers |-> 0]
    /\ op_resps = [p \in Callers |-> <<>>]
    /\ login_resp = [p \in Callers |-> None]
    /\ login_ok = [p \in Callers |-> TRUE]

\* The handle built by QbitBuilder::new().endpoint(..).credential(..) or
\* .cookie(..) and .build()
Init == InitWith({"unset"}, {"unset"}) /\ display = None

----------------------------------------------------------------------------
(* Steps shared by the actions                                             *)

\* The call of caller p ends: it returns res to the caller, or it panics.
Return(p, res) ==
    /\ pc' = [pc EXCEPT ![p] = "idle"]
    /\ result' = [result EXCEPT ![p] = res]

\* self.state.lock().unwrap(): blocks while the Mutex is held, panics when it
\* is poisoned, else gives p the guard and moves on to next.
Acquire(p, next) ==
    /\ lock = Free
    /\ IF poisoned
       THEN Return(p, "Panic") /\ lock' = lock
       ELSE /\ lock' = {p}
            /\ pc' = [pc EXCEPT ![p] = next]
            /\ result' = result

\* A panic while p holds the guard: the guard is dropped during unwinding,
\* which poisons the Mutex.
PanicHolding(p) ==
    /\ Return(p, "Panic")
    /\ lock' = Free
    /\ poisoned' = TRUE

\* login returns Ok(()): a public login is over, request goes on to build
\* its call, add_torrent to build its multipart form.
LoginReturnsOk(p) ==
    IF call[p] = "login"
    THEN Return(p, "Ok")
    ELSE /\ pc' = [pc EXCEPT ![p] = IF call[p] = "add_torrent"
                                    THEN "torrent_form"
                                    ELSE "cookie"]
         /\ result' = result

\* self.login(i != 0).await?  (and the ? inside login): an error of the
\* login step is returned to the caller of login, and by request to its own.
\* A faulty request: goes on to build its call when login has failed.
LoginReturnsErr_ignored(p, e) ==
    IF call[p] # "login"
    THEN /\ pc' = [pc EXCEPT ![p] = "cookie"]
         /\ result' = result
    ELSE Return(p, e)

LoginReturnsErr(p, e) == Return(p, e)

\* for i in 0..3 { self.login(i != 0) ... }
\* A faulty loop: forces the login of the first attempt only.
login_force_first(i) == i = 0

login_force(i) == i # 0

\* let re_login = force || { self.state().as_cookie().is_none() };
\* A faulty test: logs in again whenever a cookie is cached.
re_login_inverted(f, st) == f \/ ~is_none(as_cookie(st))

\* A faulty test: ignores the cached cookie and always logs in.
re_login_always(f, st) == TRUE

re_login(f, st) == f \/ is_none(as_cookie(st))

\* The guard taken for the COOKIE header is a temporary of the let statement
\* that builds the call: it is dropped before send().
\* A faulty request: the guard is bound to a local that lives across send().
guard_kept(p) == {p}

guard_after_build(p) == Free

\* request returns Ok(response): the untyped request is over, a typed
\* operation goes on to classify the response it was given.
RequestReturnsOk(p) ==
    IF call[p] = "request"
    THEN Return(p, "Ok")
    ELSE /\ pc' = [pc EXCEPT ![p] = "tail"]
         /\ result' = result

\* The guard taken for the login form is a temporary of the closure body: it
\* is dropped when the closure returns, before send().
guard_after_form(p) == Free

----------------------------------------------------------------------------
(* Calls made on the handle                                                *)

Begin(p, method, f) ==
    /\ pc' = [pc EXCEPT ![p] = "login"]
    /\ call' = [call EXCEPT ![p] = method]
    /\ attempt' = [attempt EXCEPT ![p] = 0]
    /\ force' = [force EXCEPT ![p] = f]
    /\ cookie_in' = [cookie_in EXCEPT ![p] = None]
    /\ sent' = [sent EXCEPT ![p] = None]
    /\ result' = [result EXCEPT ![p] = "none"]
    /\ evals' = [evals EXCEPT ![p] = <<>>]
    /\ login_calls' = [login_calls EXCEPT ![p] = 0]
    /\ op_calls' = [op_calls EXCEPT ![p] = 0]
    /\ op_resps' = [op_resps EXCEPT ![p] = <<>>]
    /\ login_resp' = [login_resp EXCEPT ![p] = None]
    /\ login_ok' = [login_ok EXCEPT ![p] = TRUE]
    /\ UNCHANGED shared
    /\ UNCHANGED extra

\* pub async fn login(&self, force: bool), called by the user
CallLogin(p, f) ==
    /\ pc[p] = "idle"
    /\ Begin(p, "login", f)

\* async fn request(..): enters the loop with i = 0 and calls login(i != 0)
CallRequest(p) ==
    /\ pc[p] = "idle"
    /\ Begin(p, "request", login_force(0))

----------------------------------------------------------------------------
(* Qbit::login                                                             *)

\* self.state() of the re_login test
LoginLock(p) ==
    /\ pc[p] = "login"
    /\ Acquire(p, "login_check")
    /\ UNCHANGED <<state, poisoned, built, issued, deviated, recorded>>
    /\ UNCHANGED extra
    /\ UNCHANGED <<call, attempt, force, cookie_in, sent>>
    /\ UNCHANGED history

\* let re_login = force || { self.state().as_cookie().is_none() };
\* if re_login { .. } else { trace!("Already logged in, skipping") } Ok(())
LoginCheck(p) ==
    /\ pc[p] = "login_check"
    /\ lock = {p}
    /\ lock' = Free
    /\ evals' = [evals EXCEPT ![p] = Append(@, <<force[p], ~is_none(as_cookie(state))>>)]
    /\ IF re_login(force[p], state)
       THEN /\ pc' = [pc EXCEPT ![p] = "form"]
            /\ result' = result
       ELSE LoginReturnsOk(p)
    /\ UNCHANGED <<state, poisoned, built, issued, deviated, recorded>>
    /\ UNCHANGED extra
    /\ UNCHANGED <<call, attempt, force, cookie_in, sent>>
    /\ UNCHANGED <<login_calls, op_calls, op_resps, login_resp, login_ok>>

\* self.state() of req.form(..)
FormLock(p) ==
    /\ pc[p] = "form"
    /\ Acquire(p, "form_read")
    /\ UNCHANGED <<state, poisoned, built, issued, deviated, recorded>>
    /\ UNCHANGED extra
    /\ UNCHANGED <<call, attempt, force, cookie_in, sent>>
    /\ UNCHANGED history

\* req.form(self.state().as_credential().expect("Credential should be set if
\* cookie is not set")).send()
FormSend(p) ==
    /\ pc[p] = "form_read"
    /\ lock = {p}
    /\ IF is_none(as_credential(state))
       THEN /\ PanicHolding(p)
            /\ UNCHANGED <<login_calls, login_resp>>
       ELSE /\ lock' = guard_after_form(p)
            /\ pc' = [pc EXCEPT ![p] = "login_wait"]
            /\ login_calls' = [login_calls EXCEPT ![p] = @ + 1]
            /\ login_resp' = [login_resp EXCEPT ![p] = None]
            /\ UNCHANGED <<poisoned, result>>
    /\ UNCHANGED <<state, built, issued, deviated, recorded>>
    /\ UNCHANGED extra
    /\ UNCHANGED <<call, attempt, force, cookie_in, sent>>
    /\ UNCHANGED <<evals, op_calls, op_resps, login_ok>>

\* .send().await? fails: the transport error is returned
LoginFail(p) ==
    /\ pc[p] = "login_wait"
    /\ LoginReturnsErr(p, "HttpError")
    /\ deviated' = TRUE
    /\ login_ok' = [login_ok EXCEPT ![p] = FALSE]
    /\ UNCHANGED <<state, lock, poisoned, built, issued, recorded>>
    /\ UNCHANGED extra
    /\ UNCHANGED <<call, attempt, force, cookie_in, sent>>
    /\ UNCHANGED <<evals, login_calls, op_calls, op_resps, login_resp>>

\* What login makes of the response: map_status(..)?.extract::<Cookie>()?
login_response(status, header) ==
    IF map_status(status, login_status(status)) # Ok
    THEN map_status(status, login_status(status))
    ELSE cookie_from_response(header)

\* The server answers the login call with a status and a Set-Cookie header;
\* a cookie it sends is a token it issues now.
LoginRespond(p, status, header) ==
    /\ pc[p] = "login_wait"
    /\ header = "cookie" => issued < MaxTok
    /\ issued' = IF header = "cookie" THEN issued + 1 ELSE issued
    /\ IF login_response(status, header) = Ok
       THEN /\ pc' = [pc EXCEPT ![p] = "add"]
            /\ cookie_in' = [cookie_in EXCEPT ![p] = Some(issued + 1)]
            /\ result' = result
       ELSE /\ LoginReturnsErr(p, login_response(status, header)[2])
            /\ cookie_in' = cookie_in
    /\ deviated' = (deviated \/ ~is_success(status) \/ header # "cookie")
    /\ login_resp' = [login_resp EXCEPT ![p] = Some(<<status, header>>)]
    /\ login_ok' = [login_ok EXCEPT ![p] = @ /\ login_response(status, header) = Ok]
    /\ UNCHANGED <<state, lock, poisoned, built, recorded>>
    /\ UNCHANGED extra
    /\ UNCHANGED <<call, attempt, force, sent>>
    /\ UNCHANGED <<evals, login_calls, op_calls, op_resps>>

\* self.state.lock().unwrap() of the closure that records the cookie
AddLock(p) ==
    /\ pc[p] = "add"
    /\ Acquire(p, "add_write")
    /\ UNCHANGED <<state, poisoned, built, issued, deviated, recorded>>
    /\ UNCHANGED extra
    /\ UNCHANGED <<call, attempt, force, cookie_in, sent>>
    /\ UNCHANGED history

\* .pipe(|Cookie(cookie)| self.state.lock().unwrap().add_cookie(cookie)); Ok(())
AddCookie(p) ==
    /\ pc[p] = "add_write"
    /\ lock = {p}
    /\ state' = add_cookie(state, unwrap(cookie_in[p]))
    /\ recorded' = cookie_in[p]
    /\ lock' = Free
    /\ cookie_in' = [cookie_in EXCEPT ![p] = None]
    /\ LoginReturnsOk(p)
    /\ UNCHANGED <<poisoned, built, issued, deviated>>
    /\ UNCHANGED extra
    /\ UNCHANGED <<call, attempt, force, sent>>
    /\ UNCHANGED history

----------------------------------------------------------------------------
(* Qbit::request                                                           *)

\* self.state() of the COOKIE header
CookieLock(p) ==
    /\ pc[p] = "cookie"
    /\ Acquire(p, "cookie_read")
    /\ UNCHANGED <<state, poisoned, built, issued, deviated, recorded>>
    /\ UNCHANGED extra
    /\ UNCHANGED <<call, attempt, force, cookie_in, sent>>
    /\ UNCHANGED history

\* A faulty request: the header is the token the server issued last, which
\* the handle may not hold.
CookieSend_last_issued(p) ==
    /\ pc[p] = "cookie_read"
    /\ lock = {p}
    /\ sent' = [sent EXCEPT ![p] = Some(issued)]
    /\ lock' = Free
    /\ pc' = [pc EXCEPT ![p] = "op_wait"]
    /\ op_calls' = [op_calls EXCEPT ![p] = @ + 1]
    /\ UNCHANGED <<poisoned, result>>
    /\ UNCHANGED <<state, built, issued, deviated, recorded>>
    /\ UNCHANGED extra
    /\ UNCHANGED <<call, attempt, force, cookie_in>>
    /\ UNCHANGED <<evals, login_calls, op_resps, login_resp, login_ok>>

\* .header(header::COOKIE, { self.state().as_cookie().expect("Cookie should be
\* set after login") }); .. req.send()
CookieSend(p) ==
    /\ pc[p] = "cookie_read"
    /\ lock = {p}
    /\ IF is_none(as_cookie(state))
       THEN /\ PanicHolding(p)
            /\ UNCHANGED <<sent, op_calls>>
       ELSE /\ sent' = [sent EXCEPT ![p] = as_cookie(state)]
            /\ lock' = guard_after_build(p)
            /\ pc' = [pc EXCEPT ![p] = "op_wait"]
            /\ op_calls' = [op_calls EXCEPT ![p] = @ + 1]
            /\ UNCHANGED <<poisoned, result>>
    /\ UNCHANGED <<state, built, issued, deviated, recorded>>
    /\ UNCHANGED extra
    /\ UNCHANGED <<call, attempt, force, cookie_in>>
    /\ UNCHANGED <<evals, login_calls, op_resps, login_resp, login_ok>>

\* A faulty request: a transport failure is taken for the retryable condition.
OpFail_retried(p) ==
    /\ pc[p] = "op_wait"
    /\ pc' = [pc EXCEPT ![p] = "login"]
    /\ force' = [force EXCEPT ![p] = TRUE]
    /\ sent' = [sent EXCEPT ![p] = None]
    /\ deviated' = TRUE
    /\ UNCHANGED <<state, lock, poisoned, built, issued, recorded>>
    /\ UNCHANGED <<call, attempt, cookie_in, result>>
    /\ UNCHANGED history
    /\ UNCHANGED extra

\* req.send().await? fails: the transport error is returned
OpFail(p) ==
    /\ pc[p] = "op_wait"
    /\ Return(p, "HttpError")
    /\ sent' = [sent EXCEPT ![p] = None]
    /\ deviated' = TRUE
    /\ UNCHANGED <<state, lock, poisoned, built, issued, recorded>>
    /\ UNCHANGED extra
    /\ UNCHANGED <<call, attempt, force, cookie_in>>
    /\ UNCHANGED history

\* A faulty loop: `loop` in place of `for i in 0..3`, it retries for as long
\* as the server answers 403.
OpRespond_unbounded(p, status) ==
    /\ pc[p] = "op_wait"
    /\ sent' = [sent EXCEPT ![p] = None]
    /\ op_resps' = [op_resps EXCEPT ![p] = <<status>>]
    /\ deviated' = (deviated \/ (status = FORBIDDEN /\ unwrap(sent[p]) \in 1..issued))
    /\ IF map_status(status, request_status(status)) = Err("NotLoggedIn")
       THEN /\ force' = [force EXCEPT ![p] = TRUE]
            /\ pc' = [pc EXCEPT ![p] = "login"]
            /\ result' = result
       ELSE /\ Return(p, "Ok")
            /\ force' = force
    /\ UNCHANGED <<state, lock, poisoned, built, issued, recorded>>
    /\ UNCHANGED extra
    /\ UNCHANGED <<call, cookie_in, attempt>>
    /\ UNCHANGED <<evals, login_calls, op_calls, login_resp, login_ok>>

\* The server answers the operation call with a status.
\*   match res { Err(NotLoggedIn) => retry, Err(e) => return Err(e),
\*               Ok(t) => return Ok(t) }  ..  Err(NotLoggedIn) after the loop
OpRespond(p, status) ==
    /\ pc[p] = "op_wait"
    /\ sent' = [sent EXCEPT ![p] = None]
    /\ op_resps' = [op_resps EXCEPT ![p] = Append(@, status)]
    /\ deviated' = (deviated \/ (status = FORBIDDEN /\ unwrap(sent[p]) \in 1..issued))
    /\ IF map_status(status, request_status(status)) = Err("NotLoggedIn")
       THEN IF attempt[p] + 1 < MaxAttempts
            THEN /\ attempt' = [attempt EXCEPT ![p] = @ + 1]
                 /\ force' = [force EXCEPT ![p] = login_force(attempt[p] + 1)]
                 /\ pc' = [pc EXCEPT ![p] = "login"]
                 /\ result' = result
            ELSE /\ Return(p, "NotLoggedIn")
                 /\ UNCHANGED <<attempt, force>>
       ELSE /\ IF map_status(status, request_status(status)) = Ok
               THEN RequestReturnsOk(p)
               ELSE Return(p, map_status(status, request_status(status))[2])
            /\ UNCHANGED <<attempt, force>>
    /\ UNCHANGED <<state, lock, poisoned, built, issued, recorded>>
    /\ UNCHANGED extra
    /\ UNCHANGED <<call, cookie_in>>
    /\ UNCHANGED <<evals, login_calls, op_calls, login_resp, login_ok>>

----------------------------------------------------------------------------

Next ==
    \E p \in Callers :
        \/ \E f \in BOOLEAN : CallLogin(p, f)
        \/ CallRequest(p)
        \/ LoginLock(p)
        \/ LoginCheck(p)
        \/ FormLock(p)
        \/ FormSend(p)
        \/ LoginFail(p)
        \/ \E status \in Statuses, header \in Headers : LoginRespond(p, status, header)
        \/ AddLock(p)
        \/ AddCookie(p)
        \/ CookieLock(p)
        \/ CookieSend(p)
        \/ OpFail(p)
        \/ \E status \in Statuses : OpRespond(p, status)

Spec == Init /\ [][Next]_vars

----------------------------------------------------------------------------
(* Typed operations: request, then the operation's classifier, then the    *)
(* operation's ending                                                      *)

\* increase_priority, decrease_priority, maximal_priority, minimal_priority
PriorityOperations ==
    {"increase_priority", "decrease_priority", "maximal_priority", "minimal_priority"}

Operations ==
    {"logout", "get_torrent_properties", "edit_trackers",
     "set_file_priority", "set_torrent_location", "set_torrent_name"}
    \cup PriorityOperations

\* The statuses the server answers an operation call with.
TypedStatuses == {200, 400, 403, 404, 409, 418, 500}

\* The closure an operation hands to map_status: Some(error) or None.
classifier(op, c) ==
    CASE op = "logout" -> None
      [] op = "get_torrent_properties" ->
            IF c = 404 THEN Some("TorrentNotFound") ELSE None
      [] op = "edit_trackers" ->
            IF c = 400 THEN Some("InvalidTrackerUrl")
            ELSE IF c = 404 THEN Some("TorrentNotFound")
            ELSE IF c = 409 THEN Some("ConflictTrackerUrl")
            ELSE None
      [] op \in PriorityOperations ->
            IF c = 409 THEN Some("QueueingDisabled") ELSE None
      [] op = "set_file_priority" ->
            IF c = 404 THEN Some("TorrentNotFound")
            ELSE IF c = 409 THEN Some("MetaNotDownloadedOrIdNotFound")
            ELSE None
      [] op = "set_torrent_location" ->
            IF c = 400 THEN Some("SavePathEmpty")
            ELSE IF c = 403 THEN Some("NoWriteAccess")
            ELSE IF c = 409 THEN Some("UnableToCreateDir")
            ELSE None
      [] op = "set_torrent_name" ->
            IF c = 404 THEN Some("TorrentNotFound") ELSE None

\* The arms of the closures that are a panic!(..) instead of a value.
classifier_panics(op, c) ==
    \/ op = "set_file_priority" /\ c = 400
    \/ op = "set_torrent_name" /\ c = 409

\* What follows map_status(..)? in the operation: .end(), Ok(()), or
\* .json().await.map_err(Into::into)
ending(op) ==
    CASE op \in {"logout", "edit_trackers", "set_torrent_location", "set_torrent_name"} -> "end"
      [] op \in PriorityOperations \cup {"set_file_priority"} -> "unit"
      [] op = "get_torrent_properties" -> "json"

\* ResponseExt::end for T = (): every status that is not 2xx is
\* UnknownHttpCode, and () is made of any response.
end(status) == map_status(status, Some("UnknownHttpCode"))

\* A variant of the operations in which each ends with .end()
typed_result_ended(op, status, decodes) ==
    IF map_status(status, classifier(op, status)) # Ok
    THEN map_status(status, classifier(op, status))
    ELSE end(status)

\* The Result of a typed operation whose request returned a response of
\* this status; decodes tells whether the body is the JSON expected.
typed_result(op, status, decodes) ==
    IF map_status(status, classifier(op, status)) # Ok
    THEN map_status(status, classifier(op, status))
    ELSE CASE ending(op) = "end" -> end(status)
           [] ending(op) = "unit" -> Ok
           [] ending(op) = "json" -> IF decodes THEN Ok ELSE Err("HttpError")

\* The status of the response request returned to the operation.
last_status(p) == op_resps[p][Len(op_resps[p])]

\* A typed operation is called: it calls request, which enters its loop.
CallOperation(p, op) ==
    /\ pc[p] = "idle"
    /\ Begin(p, op, login_force(0))

\* A faulty logout: when it has succeeded the handle forgets its session and
\* is as it was built.
OperationEnds_logout_forgets(p, decodes) ==
    /\ pc[p] = "tail"
    /\ IF typed_result(call[p], last_status(p), decodes) = Ok
       THEN Return(p, "Ok")
       ELSE Return(p, typed_result(call[p], last_status(p), decodes)[2])
    /\ state' = IF call[p] = "logout" /\ typed_result(call[p], last_status(p), decodes) = Ok
                THEN built
                ELSE state
    /\ code' = [code EXCEPT ![p] = None]
    /\ UNCHANGED <<lock, poisoned, built, issued, deviated, recorded>>
    /\ UNCHANGED <<call, attempt, force, cookie_in, sent>>
    /\ UNCHANGED history
    /\ UNCHANGED <<got, config, clone, display>>

\* The operation classifies the response and ends.
OperationEnds(p, decodes) ==
    /\ pc[p] = "tail"
    /\ IF classifier_panics(call[p], last_status(p))
       THEN /\ Return(p, "Panic")
            /\ code' = [code EXCEPT ![p] = None]
       ELSE /\ IF typed_result(call[p], last_status(p), decodes) = Ok
               THEN Return(p, "Ok")
               ELSE Return(p, typed_result(call[p], last_status(p), decodes)[2])
            /\ code' = [code EXCEPT ![p] =
                   IF typed_result(call[p], last_status(p), decodes) = Err("UnknownHttpCode")
                   THEN Some(last_status(p))
                   ELSE None]
    /\ UNCHANGED shared
    /\ UNCHANGED <<call, attempt, force, cookie_in, sent>>
    /\ UNCHANGED history
    /\ UNCHANGED <<got, config, clone, display>>

----------------------------------------------------------------------------
(* Qbit::get_cookie                                                        *)

CallGetCookie(p) ==
    /\ pc[p] = "idle"
    /\ pc' = [pc EXCEPT ![p] = "get"]
    /\ call' = [call EXCEPT ![p] = "get_cookie"]
    /\ result' = [result EXCEPT ![p] = "none"]
    /\ UNCHANGED shared
    /\ UNCHANGED <<attempt, force, cookie_in, sent>>
    /\ UNCHANGED history
    /\ UNCHANGED extra

\* self.state.lock().unwrap()
GetCookieLock(p) ==
    /\ pc[p] = "get"
    /\ Acquire(p, "get_read")
    /\ UNCHANGED <<state, poisoned, built, issued, deviated, recorded>>
    /\ UNCHANGED <<call, attempt, force, cookie_in, sent>>
    /\ UNCHANGED history
    /\ UNCHANGED extra

\* .as_cookie().map(ToOwned::to_owned): the guard is dropped at the end of
\* the statement.
GetCookieRead(p) ==
    /\ pc[p] = "get_read"
    /\ lock = {p}
    /\ lock' = Free
    /\ got' = [got EXCEPT ![p] = as_cookie(state)]
    /\ Return(p, "Ok")
    /\ UNCHANGED <<state, poisoned, built, issued, deviated, recorded>>
    /\ UNCHANGED <<call, attempt, force, cookie_in, sent>>
    /\ UNCHANGED history
    /\ UNCHANGED <<code, config, clone, display>>

----------------------------------------------------------------------------
(* One caller of the typed operations, and one reader of the cookie        *)

Operator == 1

Reader == 2

NextOps ==
    \/ \E op \in Operations : CallOperation(Operator, op)
    \/ LoginLock(Operator)
    \/ LoginCheck(Operator)
    \/ FormLock(Operator)
    \/ FormSend(Operator)
    \/ LoginFail(Operator)
    \/ \E status \in Statuses, header \in Headers : LoginRespond(Operator, status, header)
    \/ AddLock(Operator)
    \/ AddCookie(Operator)
    \/ CookieLock(Operator)
    \/ CookieSend(Operator)
    \/ OpFail(Operator)
    \/ \E status \in TypedStatuses : OpRespond(Operator, status)
    \/ \E decodes \in BOOLEAN : OperationEnds(Operator, decodes)
    \/ CallGetCookie(Reader)
    \/ GetCookieLock(Reader)
    \/ GetCookieRead(Reader)

SpecOps == Init /\ [][NextOps]_vars

----------------------------------------------------------------------------
(* The handles the builder makes: one caller of login and request, and one *)
(* reader of the cookie                                                    *)

\* The handle as built with any choice of client and basic-auth credentials.
InitBuild == InitWith(ClientInputs, BasicAuthInputs) /\ display = None

NextBuild ==
    \/ \E f \in BOOLEAN : CallLogin(Operator, f)
    \/ CallRequest(Operator)
    \/ LoginLock(Operator)
    \/ LoginCheck(Operator)
    \/ FormLock(Operator)
    \/ FormSend(Operator)
    \/ LoginFail(Operator)
    \/ \E status \in Statuses, header \in Headers : LoginRespond(Operator, status, header)
    \/ AddLock(Operator)
    \/ AddCookie(Operator)
    \/ CookieLock(Operator)
    \/ CookieSend(Operator)
    \/ OpFail(Operator)
    \/ \E status \in Statuses : OpRespond(Operator, status)
    \/ CallGetCookie(Reader)
    \/ GetCookieLock(Reader)
    \/ GetCookieRead(Reader)

SpecBuild == InitBuild /\ [][NextBuild]_vars

----------------------------------------------------------------------------
(* Clone for Qbit: the clone has a Mutex of its own around a copy of the   *)
(* state                                                                   *)

\* A faulty clone: the new handle starts without the cookie that is cached.
clone_state_fresh(st) ==
    IF st.tag = "LoggedIn" THEN NotLoggedIn(st.credential) ELSE st

\* self.state.lock().unwrap().clone(): #[derive(Clone)] of LoginState
clone_state(st) == st

CallClone(p) ==
    /\ pc[p] = "idle"
    /\ pc' = [pc EXCEPT ![p] = "clone"]
    /\ call' = [call EXCEPT ![p] = "clone"]
    /\ result' = [result EXCEPT ![p] = "none"]
    /\ UNCHANGED shared
    /\ UNCHANGED <<attempt, force, cookie_in, sent>>
    /\ UNCHANGED history
    /\ UNCHANGED extra

\* self.state.lock().unwrap()
CloneLock(p) ==
    /\ pc[p] = "clone"
    /\ Acquire(p, "clone_copy")
    /\ UNCHANGED <<state, poisoned, built, issued, deviated, recorded>>
    /\ UNCHANGED <<call, attempt, force, cookie_in, sent>>
    /\ UNCHANGED history
    /\ UNCHANGED extra

\* let state = ..clone(); Self { .., state: Mutex::new(state) }: the guard is
\* dropped at the end of the let statement.
CloneCopy(p) ==
    /\ pc[p] = "clone_copy"
    /\ lock = {p}
    /\ lock' = Free
    /\ clone' = Some([state |-> clone_state(state),
                      snapshot |-> state,
                      recorded |-> None,
                      poisoned |-> FALSE])
    /\ Return(p, "Ok")
    /\ UNCHANGED <<state, poisoned, built, issued, deviated, recorded>>
    /\ UNCHANGED <<call, attempt, force, cookie_in, sent>>
    /\ UNCHANGED history
    /\ UNCHANGED <<got, code, config, display>>

\* login(f) called on the clone and answered with a status and a Set-Cookie
\* header. Its steps read and write the clone's own Mutex and state only, so
\* they are taken as one step among the steps on the original.
CloneLogin(f, status, header) ==
    /\ ~is_none(clone)
    /\ ~unwrap(clone).poisoned
    /\ re_login(f, unwrap(clone).state)
    /\ IF is_none(as_credential(unwrap(clone).state))
       THEN /\ clone' = Some([unwrap(clone) EXCEPT !.poisoned = TRUE])
            /\ UNCHANGED <<issued, deviated>>
       ELSE /\ header = "cookie" => issued < MaxTok
            /\ issued' = IF header = "cookie" THEN issued + 1 ELSE issued
            /\ deviated' = (deviated \/ ~is_success(status) \/ header # "cookie")
            /\ clone' = IF login_response(status, header) = Ok
                        THEN Some([unwrap(clone) EXCEPT
                                     !.state = add_cookie(@, issued + 1),
                                     !.recorded = Some(issued + 1)])
                        ELSE clone
    /\ UNCHANGED <<state, lock, poisoned, built, recorded>>
    /\ UNCHANGED local
    /\ UNCHANGED history
    /\ UNCHANGED <<got, code, config, display>>

Cloner == 2

NextClone ==
    \/ \E f \in BOOLEAN : CallLogin(Operator, f)
    \/ CallRequest(Operator)
    \/ LoginLock(Operator)
    \/ LoginCheck(Operator)
    \/ FormLock(Operator)
    \/ FormSend(Operator)
    \/ LoginFail(Operator)
    \/ \E status \in Statuses, header \in Headers : LoginRespond(Operator, status, header)
    \/ AddLock(Operator)
    \/ AddCookie(Operator)
    \/ CookieLock(Operator)
    \/ CookieSend(Operator)
    \/ OpFail(Operator)
    \/ \E status \in Statuses : OpRespond(Operator, status)
    \/ CallClone(Cloner)
    \/ CloneLock(Cloner)
    \/ CloneCopy(Cloner)
    \/ \E f \in BOOLEAN, status \in Statuses, header \in Headers : CloneLogin(f, status, header)

SpecClone == Init /\ [][NextClone]_vars

----------------------------------------------------------------------------
(* Qbit::add_torrent with TorrentSource::TorrentFiles: its own loop        *)

AddTorrentAttempts == 3

\* A faulty loop: never forces a login.
add_torrent_force_never(i) == FALSE

\* for i in 0..3 { self.login(i != 0).await?; ..
add_torrent_force(i) == i # 0

\* The classifier of the multipart call: 403 is NotLoggedIn.
add_torrent_status(c) == IF c = FORBIDDEN THEN Some("NotLoggedIn") ELSE None

CallAddTorrent(p) ==
    /\ pc[p] = "idle"
    /\ Begin(p, "add_torrent", add_torrent_force(0))

\* serde_json::to_value(a)? and the folds that build the multipart form
TorrentForm(p, serializes) ==
    /\ pc[p] = "torrent_form"
    /\ IF serializes
       THEN /\ pc' = [pc EXCEPT ![p] = "torrent_cookie"]
            /\ result' = result
       ELSE Return(p, "SerdeJsonError")
    /\ UNCHANGED shared
    /\ UNCHANGED <<call, attempt, force, cookie_in, sent>>
    /\ UNCHANGED history
    /\ UNCHANGED extra

\* self.state() of the COOKIE header
TorrentCookieLock(p) ==
    /\ pc[p] = "torrent_cookie"
    /\ Acquire(p, "torrent_cookie_read")
    /\ UNCHANGED <<state, poisoned, built, issued, deviated, recorded>>
    /\ UNCHANGED <<call, attempt, force, cookie_in, sent>>
    /\ UNCHANGED history
    /\ UNCHANGED extra

\* .header(header::COOKIE, { self.state().as_cookie().expect("Cookie should be
\* set after login") }); .. req.send()
TorrentCookieSend(p) ==
    /\ pc[p] = "torrent_cookie_read"
    /\ lock = {p}
    /\ IF is_none(as_cookie(state))
       THEN /\ PanicHolding(p)
            /\ UNCHANGED <<sent, op_calls>>
       ELSE /\ sent' = [sent EXCEPT ![p] = as_cookie(state)]
            /\ lock' = Free
            /\ pc' = [pc EXCEPT ![p] = "torrent_wait"]
            /\ op_calls' = [op_calls EXCEPT ![p] = @ + 1]
            /\ UNCHANGED <<poisoned, result>>
    /\ UNCHANGED <<state, built, issued, deviated, recorded>>
    /\ UNCHANGED <<call, attempt, force, cookie_in>>
    /\ UNCHANGED <<evals, login_calls, op_resps, login_resp, login_ok>>
    /\ UNCHANGED extra

\* req.send().await? fails: the transport error is returned
TorrentFail(p) ==
    /\ pc[p] = "torrent_wait"
    /\ Return(p, "HttpError")
    /\ sent' = [sent EXCEPT ![p] = None]
    /\ deviated' = TRUE
    /\ UNCHANGED <<state, lock, poisoned, built, issued, recorded>>
    /\ UNCHANGED <<call, attempt, force, cookie_in>>
    /\ UNCHANGED history
    /\ UNCHANGED extra

\* The server answers the multipart call with a status.
\*   match res { Err(NotLoggedIn) => retry, Err(e) => return Err(e),
\*               Ok(t) => return t.end() }  ..  Err(NotLoggedIn) after the loop
TorrentRespond(p, status) ==
    /\ pc[p] = "torrent_wait"
    /\ sent' = [sent EXCEPT ![p] = None]
    /\ op_resps' = [op_resps EXCEPT ![p] = Append(@, status)]
    /\ deviated' = (deviated \/ (status = FORBIDDEN /\ unwrap(sent[p]) \in 1..issued))
    /\ IF map_status(status, add_torrent_status(status)) = Err("NotLoggedIn")
       THEN /\ IF attempt[p] + 1 < AddTorrentAttempts
               THEN /\ attempt' = [attempt EXCEPT ![p] = @ + 1]
                    /\ force' = [force EXCEPT ![p] = add_torrent_force(attempt[p] + 1)]
                    /\ pc' = [pc EXCEPT ![p] = "login"]
                    /\ result' = result
               ELSE /\ Return(p, "NotLoggedIn")
                    /\ UNCHANGED <<attempt, force>>
            /\ code' = code
       ELSE /\ IF map_status(status, add_torrent_status(status)) # Ok
               THEN Return(p, map_status(status, add_torrent_status(status))[2])
               ELSE IF end(status) = Ok
                    THEN Return(p, "Ok")
                    ELSE Return(p, end(status)[2])
            /\ code' = [code EXCEPT ![p] =
                   IF end(status) = Ok THEN None ELSE Some(status)]
            /\ UNCHANGED <<attempt, force>>
    /\ UNCHANGED <<state, lock, poisoned, built, issued, recorded>>
    /\ UNCHANGED <<call, cookie_in>>
    /\ UNCHANGED <<evals, login_calls, op_calls, login_resp, login_ok>>
    /\ UNCHANGED <<got, config, clone, display>>

Uploader == 2

\* One caller of request and one of add_torrent on the same handle.
NextTorrent ==
    \/ CallRequest(Operator)
    \/ CallAddTorrent(Uploader)
    \/ \E p \in {Operator, Uploader} :
        \/ LoginLock(p)
        \/ LoginCheck(p)
        \/ FormLock(p)
        \/ FormSend(p)
        \/ LoginFail(p)
        \/ \E status \in Statuses, header \in Headers : LoginRespond(p, status, header)
        \/ AddLock(p)
        \/ AddCookie(p)
    \/ CookieLock(Operator)
    \/ CookieSend(Operator)
    \/ OpFail(Operator)
    \/ \E status \in Statuses : OpRespond(Operator, status)
    \/ \E serializes \in BOOLEAN : TorrentForm(Uploader, serializes)
    \/ TorrentCookieLock(Uploader)
    \/ TorrentCookieSend(Uploader)
    \/ TorrentFail(Uploader)
    \/ \E status \in Statuses : TorrentRespond(Uploader, status)

SpecTorrent == Init /\ [][NextTorrent]_vars

----------------------------------------------------------------------------
(* A caller that drops the future of its call at an await                  *)

\* The future of p is dropped while it is suspended in send().await of login
\* or of request: its locals are dropped, a guard among them, and nothing
\* else runs.
Abandon(p) ==
    /\ pc[p] \in {"login_wait", "op_wait"}
    /\ Return(p, "Abandoned")
    /\ lock' = lock \ {p}
    /\ sent' = [sent EXCEPT ![p] = None]
    /\ UNCHANGED <<state, poisoned, built, issued, deviated, recorded>>
    /\ UNCHANGED <<call, attempt, force, cookie_in>>
    /\ UNCHANGED history
    /\ UNCHANGED extra

NextCancel ==
    \/ Next
    \/ \E p \in Callers : Abandon(p)

SpecCancel == Init /\ [][NextCancel]_vars

----------------------------------------------------------------------------
(* model/mod.rs: Display for Sep<T, C>                                     *)

MaxLen == 3

\* What the elements display as: strings, the empty one among them.
Elements == {<<>>, <<"1">>, <<"2">>, <<"1", "2">>}

Separators == {"|", "\n"}

\* The lists of at most n elements.
Lists(n) == UNION {[1..k -> Elements] : k \in 0..n}

\* A faulty loop: the separator is written after the element.
write_rest_trailing(f, C, x) == f \o x \o <<C>>

\* f.write_char(C)?; x.fmt(f)?;
write_rest(f, C, x) == f \o <<C>> \o x

\* sep.to_string(): fmt is called with an empty buffer
InitSep ==
    /\ InitWith({"unset"}, {"unset"})
    /\ \E list \in Lists(MaxLen), C \in Separators :
         display = Some([list |-> list, C |-> C, f |-> <<>>, next |-> 0, done |-> FALSE])

\* match self.0.as_slice() { [] => Ok(()), [x] => x.fmt(f),
\*                           [x, xs @ ..] => { x.fmt(f)?; .. } }
SepMatch ==
    /\ ~is_none(display)
    /\ unwrap(display).next = 0
    /\ ~unwrap(display).done
    /\ display' =
         LET d == unwrap(display)
         IN  IF Len(d.list) = 0
             THEN Some([d EXCEPT !.done = TRUE])
             ELSE IF Len(d.list) = 1
                  THEN Some([d EXCEPT !.f = @ \o d.list[1], !.done = TRUE])
                  ELSE Some([d EXCEPT !.f = @ \o d.list[1], !.next = 2])
    /\ UNCHANGED <<shared, local, history>>
    /\ UNCHANGED <<got, code, config, clone>>

\* for x in xs { f.write_char(C)?; x.fmt(f)?; }
SepRest ==
    /\ ~is_none(display)
    /\ unwrap(display).next >= 2
    /\ unwrap(display).next <= Len(unwrap(display).list)
    /\ display' =
         LET d == unwrap(display)
         IN  Some([d EXCEPT !.f = write_rest(@, d.C, d.list[d.next]), !.next = @ + 1])
    /\ UNCHANGED <<shared, local, history>>
    /\ UNCHANGED <<got, code, config, clone>>

\* Ok(()) after the loop
SepEnd ==
    /\ ~is_none(display)
    /\ ~unwrap(display).done
    /\ unwrap(display).next > Len(unwrap(display).list)
    /\ display' = Some([unwrap(display) EXCEPT !.done = TRUE])
    /\ UNCHANGED <<shared, local, history>>
    /\ UNCHANGED <<got, code, config, clone>>

NextSep == SepMatch \/ SepRest \/ SepEnd

SpecSep == InitSep /\ [][NextSep]_vars

----------------------------------------------------------------------------
(* Vocabulary of the properties                                            *)

CredentialBuilt == built.tag = "NotLoggedIn"

CookieBuilt == built.tag = "CookieProvided"

\* The call of method m made by p has ended.
Finished(p, m) == pc[p] = "idle" /\ call[p] = m /\ result[p] # "none"

\* Every operation call p sent during this call was answered, and with 403.
AllForbidden(p) ==
    /\ Len(op_resps[p]) = op_calls[p]
    /\ \A k \in DOMAIN op_resps[p] : op_resps[p][k] = 403

\* The force arguments of the logins of this call, in order.
Forces(p) == [k \in DOMAIN evals[p] |-> evals[p][k][1]]

\* The first login of this call found a cookie cached.
CachedAtFirst(p) == evals[p][1][2]

----------------------------------------------------------------------------
(* C1: with a credential-built client, a request whose operation calls are *)
(* all answered 403 while its logins succeed makes exactly 3 attempts      *)
(* (logins with force = FALSE, TRUE, TRUE; 3 operation calls), returns     *)
(* NotLoggedIn, and no request ever starts a 4th attempt.                  *)
C1_BoundedRetry ==
    \A p \in Callers :
        /\ call[p] = "request" => Len(evals[p]) <= 3 /\ op_calls[p] <= 3
        /\ (/\ CredentialBuilt
            /\ Finished(p, "request")
            /\ login_ok[p]
            /\ AllForbidden(p))
           => /\ Forces(p) = <<FALSE, TRUE, TRUE>>
              /\ op_calls[p] = 3
              /\ login_calls[p] = (IF CachedAtFirst(p) THEN 2 ELSE 3)
              /\ result[p] = "NotLoggedIn"

C1_Witness ==
    \E p \in Callers :
        /\ CredentialBuilt
        /\ Finished(p, "request")
        /\ login_ok[p]
        /\ AllForbidden(p)
        /\ op_calls[p] = 3
        /\ result[p] = "NotLoggedIn"

(* C2: a request answered 403 on attempt 0 and 2xx on attempt 1 returns    *)
(* success after exactly 2 operation calls and 2 logins, the first         *)
(* unforced (no login call when a cookie was cached), the second forced    *)
(* with one login call.                                                    *)
C2_RecoveryAfterStaleToken ==
    \A p \in Callers :
        (/\ Finished(p, "request")
         /\ Len(op_resps[p]) = 2
         /\ op_resps[p][1] = 403
         /\ is_success(op_resps[p][2]))
        => /\ result[p] = "Ok"
           /\ op_calls[p] = 2
           /\ Forces(p) = <<FALSE, TRUE>>
           /\ login_calls[p] = (IF CachedAtFirst(p) THEN 1 ELSE 2)

C2_Witness ==
    \E p \in Callers :
        /\ Finished(p, "request")
        /\ op_resps[p] = <<403, 200>>
        /\ CachedAtFirst(p)
        /\ login_calls[p] = 1
        /\ result[p] = "Ok"

(* C3: the step of login(false) that finds a cookie in the state (LoggedIn *)
(* or CookieProvided) ends the login with Ok: no login call is sent and    *)
(* the state is left as it was.                                            *)
C3_LoginFalseIsNoop ==
    [][\A p \in Callers :
        (/\ pc[p] = "login_check"
         /\ pc'[p] # "login_check"
         /\ ~force[p]
         /\ ~is_none(as_cookie(state)))
        => /\ state' = state
           /\ login_calls'[p] = login_calls[p]
           /\ pc'[p] \notin {"form", "form_read", "login_wait"}
           /\ call[p] = "login" =>
                pc'[p] = "idle" /\ result'[p] = "Ok" /\ login_calls'[p] = 0
           /\ call[p] = "request" => pc'[p] = "cookie"]_vars

C3_Witness ==
    \E p \in Callers :
        /\ Finished(p, "login")
        /\ evals[p] = << <<FALSE, TRUE>> >>
        /\ state.tag = "LoggedIn"
        /\ result[p] = "Ok"
        /\ login_calls[p] = 0

(* C4: login(true) sends exactly one login call in every session state,    *)
(* CookieProvided included.                                                *)
C4_ForcedLoginCallsOnce ==
    \A p \in Callers :
        (Finished(p, "login") /\ Len(evals[p]) = 1 /\ evals[p][1][1])
        => login_calls[p] = 1

(* C5: when the login of an attempt of request fails, request is over at   *)
(* once with that error (IpBanned when the login call was answered 403):   *)
(* no operation call was sent in that attempt, and none follows.           *)
C5_LoginFailureEndsRequest ==
    \A p \in Callers :
        (call[p] = "request" /\ ~login_ok[p])
        => /\ pc[p] = "idle"
           /\ result[p] \in {"IpBanned", "BadResponse", "NonAsciiHeader", "HttpError"}
           /\ op_calls[p] = Len(evals[p]) - 1
           /\ login_calls[p] <= Len(evals[p])
           /\ AllForbidden(p)
           /\ (~is_none(login_resp[p]) /\ unwrap(login_resp[p])[1] = 403)
                => result[p] = "IpBanned"

C5_Witness ==
    \E p \in Callers :
        /\ Finished(p, "request")
        /\ ~login_ok[p]
        /\ login_resp[p] = Some(<<403, "cookie">>)
        /\ result[p] = "IpBanned"
        /\ Len(evals[p]) = 2
        /\ op_calls[p] = 1

(* C6: add_cookie on NotLoggedIn or LoggedIn gives LoggedIn with the new   *)
(* cookie and the credential held before: a credential-built client holds  *)
(* the credential it was built with in every state, and once a cookie was  *)
(* recorded it is LoggedIn with the cookie recorded last.                  *)
C6_CredentialRetained ==
    CredentialBuilt =>
        /\ as_credential(state) = Some(built.credential)
        /\ is_none(recorded) => state = built
        /\ ~is_none(recorded) => state = LoggedIn(unwrap(recorded), built.credential)
        /\ \A t \in 1..MaxTok :
             add_cookie(state, t) = LoggedIn(t, built.credential)

C6_Witness ==
    /\ CredentialBuilt
    /\ issued >= 2
    /\ recorded = Some(2)
    /\ state = LoggedIn(2, built.credential)

(* C7: a cookie-built client stays CookieProvided with the cookie it was   *)
(* built with in every state: recording a cookie leaves it unchanged, and  *)
(* no login or request overwrites it.                                      *)
C7_SuppliedCookieSticky ==
    CookieBuilt =>
        /\ state = CookieProvided(built.cookie)
        /\ \A t \in 1..MaxTok : add_cookie(state, t) = state

C7_Witness ==
    \E p, q \in Callers :
        /\ CookieBuilt
        /\ Finished(p, "request")
        /\ result[p] = "Ok"
        /\ Finished(q, "login")
        /\ result[q] = "Panic"
        /\ evals[q] = << <<TRUE, TRUE>> >>

(* C8: with a cookie-built client, a request whose operation calls are all *)
(* answered 403 returns NotLoggedIn, and the login of a request never      *)
(* reads the credential of a state that holds none.                        *)
C8_CookieClientExhausts ==
    \A p \in Callers :
        /\ (/\ CookieBuilt
            /\ Finished(p, "request")
            /\ op_calls[p] >= 1
            /\ AllForbidden(p))
           => result[p] = "NotLoggedIn"
        /\ (call[p] = "request" /\ pc[p] = "form_read")
           => ~is_none(as_credential(state))

(* C9: with a credential-built client and a server that accepts the        *)
(* credential and honours every token it issued, no call panics or returns *)
(* NotLoggedIn and every request that ends returns Ok, also when two       *)
(* requests both found no cookie and each sent its own login call.         *)
C9_DuplicateLoginBenign ==
    (CredentialBuilt /\ ~deviated) =>
        \A p \in Callers :
            /\ result[p] \notin {"NotLoggedIn", "Panic"}
            /\ Finished(p, "request") => result[p] = "Ok"

C9_Witness ==
    /\ CredentialBuilt
    /\ ~deviated
    /\ \A p \in Callers :
        /\ Finished(p, "request")
        /\ evals[p] = << <<FALSE, FALSE>> >>
        /\ login_calls[p] = 1
        /\ result[p] = "Ok"

(* C10: no caller holds the guard of the state while its login call or its *)
(* operation call is in flight; the guard is held only in the steps that   *)
(* read the cookie, read the credential or record the cookie.              *)
C10_NoLockAcrossCall ==
    \A p \in Callers :
        /\ pc[p] \in {"login_wait", "op_wait"} => p \notin lock
        /\ p \in lock => pc[p] \in {"login_check", "form_read", "add_write", "cookie_read"}

C10_Witness ==
    \E p, q \in Callers :
        /\ pc[p] = "op_wait"
        /\ pc[q] = "login_wait"
        /\ lock = Free

(* C11: a login whose call fails returns the matching error (HttpError    *)
(* for a transport failure, IpBanned for status 403, BadResponse for       *)
(* another status without a Set-Cookie header) and does not change the     *)
(* state.                                                                  *)
C11_FailedLoginKeepsState ==
    [][\A p \in Callers :
        (pc[p] = "login_wait" /\ pc'[p] # "login_wait" /\ pc'[p] # "add")
        => /\ state' = state
           /\ recorded' = recorded
           /\ pc'[p] = "idle"
           /\ is_none(login_resp'[p]) => result'[p] = "HttpError"
           /\ ~is_none(login_resp'[p]) =>
                LET status == unwrap(login_resp'[p])[1]
                    header == unwrap(login_resp'[p])[2]
                IN  /\ status = 403 => result'[p] = "IpBanned"
                    /\ (status # 403 /\ header = "absent") => result'[p] = "BadResponse"
                    /\ result'[p] \in {"IpBanned", "BadResponse", "NonAsciiHeader"}]_vars

C11_Witness ==
    \E p \in Callers :
        /\ Finished(p, "login")
        /\ login_calls[p] = 1
        /\ login_resp[p] = Some(<<200, "absent">>)
        /\ result[p] = "BadResponse"
        /\ state.tag = "LoggedIn"
        /\ state.cookie = unwrap(recorded)

(* C12: when the send of an operation call fails in the transport, request *)
(* is over with HttpError: that call was its last, and no login follows.   *)
C12_TransportFailureEndsRequest ==
    \A p \in Callers :
        (/\ call[p] = "request"
         /\ pc[p] # "op_wait"
         /\ Len(op_resps[p]) < op_calls[p])
        => /\ pc[p] = "idle"
           /\ result[p] = "HttpError"
           /\ op_calls[p] = Len(op_resps[p]) + 1
           /\ Len(evals[p]) = op_calls[p]
           /\ login_ok[p]

C12_Witness ==
    \E p \in Callers :
        /\ Finished(p, "request")
        /\ op_calls[p] = 2
        /\ op_resps[p] = <<403>>
        /\ result[p] = "HttpError"

\* The positions of a caller inside the login step.
LoginSteps == {"login", "login_check", "form", "form_read", "login_wait", "add", "add_write"}

(* C18: within one request the operation call of attempt i is in flight    *)
(* only after the login step of attempt i, called with force = (i # 0),    *)
(* has returned Ok; while a login step runs, no operation call of the      *)
(* request is in flight and the call of that attempt is not yet sent.      *)
C18_LoginPrecedesCall ==
    \A p \in Callers :
        call[p] = "request"
        => /\ pc[p] = "op_wait"
              => /\ op_calls[p] = attempt[p] + 1
                 /\ Len(evals[p]) = attempt[p] + 1
                 /\ evals[p][attempt[p] + 1][1] = (attempt[p] # 0)
                 /\ login_ok[p]
                 /\ Len(op_resps[p]) = attempt[p]
           /\ pc[p] \in LoginSteps
              => /\ op_calls[p] = attempt[p]
                 /\ Len(op_resps[p]) = op_calls[p]
                 /\ is_none(sent[p])

C18_Witness ==
    \E p \in Callers :
        /\ call[p] = "request"
        /\ pc[p] = "op_wait"
        /\ attempt[p] = 2
        /\ login_calls[p] = 2
        /\ Forces(p) = <<FALSE, TRUE, TRUE>>

\* The typed operation p called has ended, and the server answered the
\* last operation call it sent.
Answered(p) ==
    /\ pc[p] = "idle"
    /\ call[p] \in Operations
    /\ result[p] # "none"
    /\ op_calls[p] > 0
    /\ Len(op_resps[p]) = op_calls[p]

(* C13: a typed operation answered with a status that is not 2xx returns   *)
(* the error its classifier makes of the status, and UnknownHttpCode       *)
(* carrying the status when the classifier makes none of it and it is not  *)
(* 403. (Status 403 and the panicking arms are left to C14 and C15.)       *)
C13_ClassifiedOrUnknownCode ==
    \A p \in Callers :
        (/\ Answered(p)
         /\ ~is_success(last_status(p))
         /\ last_status(p) # FORBIDDEN
         /\ ~classifier_panics(call[p], last_status(p)))
        => IF ~is_none(classifier(call[p], last_status(p)))
           THEN result[p] = unwrap(classifier(call[p], last_status(p)))
           ELSE /\ result[p] = "UnknownHttpCode"
                /\ code[p] = Some(last_status(p))

(* C14: set_torrent_location answered with status 403, with no login of    *)
(* the call failing, returns NoWriteAccess, the error its classifier makes *)
(* of 403.                                                                 *)
C14_ForbiddenIsNoWriteAccess ==
    \A p \in Callers :
        (/\ CredentialBuilt
         /\ Answered(p)
         /\ call[p] = "set_torrent_location"
         /\ login_ok[p]
         /\ last_status(p) = FORBIDDEN)
        => result[p] = "NoWriteAccess"

(* C15: a typed operation whose calls were all answered returns a value or *)
(* an error, whatever the statuses were: it does not panic.                *)
C15_EveryStatusReturns ==
    \A p \in Callers :
        (CredentialBuilt /\ Answered(p)) => result[p] # "Panic"

(* C16: the state of the handle changes only in the step of a login whose  *)
(* call succeeded and that records the token it was given; every other     *)
(* step of login, request, a typed operation, logout or get_cookie leaves  *)
(* it as it is, and get_cookie called after logout has returned Ok returns *)
(* the token that is cached still.                                         *)
C16_OnlyLoginWritesState ==
    [][/\ state' # state
          => \E p \in Callers :
                /\ pc[p] = "add_write"
                /\ pc'[p] # "add_write"
                /\ ~is_none(login_resp[p])
                /\ login_response(unwrap(login_resp[p])[1], unwrap(login_resp[p])[2]) = Ok
                /\ state' = add_cookie(state, unwrap(cookie_in[p]))
       /\ \A p, q \in Callers :
            (/\ Finished(p, "logout")
             /\ result[p] = "Ok"
             /\ pc[q] = "get_read"
             /\ pc'[q] = "idle")
            => /\ state' = state
               /\ got'[q] = as_cookie(state)
               /\ ~is_none(got'[q])
               /\ CredentialBuilt => got'[q] = recorded
               /\ CookieBuilt => got'[q] = Some(built.cookie)]_vars

C16_Witness ==
    /\ CredentialBuilt
    /\ Finished(Operator, "logout")
    /\ result[Operator] = "Ok"
    /\ login_calls[Operator] = 1
    /\ Finished(Reader, "get_cookie")
    /\ got[Reader] = Some(issued)
    /\ as_cookie(state) = got[Reader]

(* C19: a handle built with a credential starts in NotLoggedIn with that   *)
(* credential, and get_cookie returns None as long as no login has         *)
(* recorded a cookie; a handle built with a cookie starts in               *)
(* CookieProvided, and get_cookie returns that cookie; this is so whatever *)
(* client and basic-auth credentials the builder was given. (get_cookie    *)
(* returns unless the Mutex is poisoned.)                                  *)
C19_BuiltState ==
    /\ config.login[1] = "credential" => built = NotLoggedIn(config.login[2])
    /\ config.login[1] = "cookie" => built = CookieProvided(config.login[2])
    /\ is_none(recorded) => state = built
    /\ \A q \in Callers :
         (Finished(q, "get_cookie") /\ result[q] = "Ok")
         => /\ (CredentialBuilt /\ is_none(recorded)) => is_none(got[q])
            /\ CookieBuilt => got[q] = Some(config.login[2])

C19_Witness ==
    /\ config.client = "given"
    /\ config.basic_auth_credentials = "some"
    /\ config.login = <<"credential", "admin">>
    /\ Finished(Operator, "login")
    /\ login_calls[Operator] = 1
    /\ ~login_ok[Operator]
    /\ Finished(Reader, "get_cookie")
    /\ result[Reader] = "Ok"
    /\ is_none(got[Reader])

(* C17: clone copies the state of the original as it is at that moment,    *)
(* and from then on the two are apart: a step that changes the state of    *)
(* the original leaves the clone as it is, a step that changes the clone   *)
(* leaves the original as it is, and the token of the clone changes only   *)
(* by a login on the clone.                                                *)
C17_CloneIsolated ==
    [][/\ \A p \in Callers :
            (pc[p] = "clone_copy" /\ pc'[p] = "idle")
            => /\ unwrap(clone').state = state
               /\ state' = state
       /\ state' # state => clone' = clone
       /\ clone' # clone => (state' = state /\ recorded' = recorded)
       /\ (/\ ~is_none(clone)
           /\ ~is_none(clone')
           /\ as_cookie(unwrap(clone').state) # as_cookie(unwrap(clone).state))
          => \/ local' = local
             \/ \E p \in Callers : pc[p] = "clone_copy" /\ pc'[p] = "idle"]_vars

C17_Witness ==
    /\ ~is_none(clone)
    /\ unwrap(clone).snapshot.tag = "LoggedIn"
    /\ unwrap(clone).snapshot.cookie = 1
    /\ as_cookie(unwrap(clone).state) = Some(2)
    /\ as_cookie(state) = Some(3)

\* The steps caller p takes by itself or when a network call of its own
\* completes, once it has made a call.
StepOf(p) ==
    \/ LoginLock(p)
    \/ LoginCheck(p)
    \/ FormLock(p)
    \/ FormSend(p)
    \/ LoginFail(p)
    \/ \E status \in Statuses, header \in Headers : LoginRespond(p, status, header)
    \/ AddLock(p)
    \/ AddCookie(p)
    \/ CookieLock(p)
    \/ CookieSend(p)
    \/ OpFail(p)
    \/ \E status \in Statuses : OpRespond(p, status)

\* How far a request has come: 10 positions in each of the 3 attempts of
\* its loop, and the end.
Position(p) ==
    IF pc[p] = "idle"
    THEN 10 * MaxAttempts
    ELSE 10 * attempt[p] +
         (CASE pc[p] = "login" -> 0
            [] pc[p] = "login_check" -> 1
            [] pc[p] = "form" -> 2
            [] pc[p] = "form_read" -> 3
            [] pc[p] = "login_wait" -> 4
            [] pc[p] = "add" -> 5
            [] pc[p] = "add_write" -> 6
            [] pc[p] = "cookie" -> 7
            [] pc[p] = "cookie_read" -> 8
            [] pc[p] = "op_wait" -> 9)

(* C20: a request ends after a bounded number of steps, whatever the       *)
(* server answers and whatever the other caller does: it has sent at most  *)
(* 3 login calls and 3 operation calls, each step it takes brings it       *)
(* nearer to its end (at most 30 steps), and while it has not ended either *)
(* its next step can be taken, or it waits for the Mutex and the caller    *)
(* holding the guard can take the step that drops it.                      *)
C20_RequestTerminates ==
    [][\A p \in Callers :
        (call[p] = "request" /\ pc[p] # "idle")
        => /\ login_calls[p] <= MaxAttempts /\ login_calls'[p] <= MaxAttempts
           /\ op_calls[p] <= MaxAttempts /\ op_calls'[p] <= MaxAttempts
           /\ attempt[p] < MaxAttempts
           /\ Position(p) < 10 * MaxAttempts
           /\ <<pc[p], attempt[p]>> # <<pc'[p], attempt'[p]>>
              => (call'[p] = "request" /\ (Position(p))' > Position(p))
           /\ \/ ENABLED StepOf(p)
              \/ \E q \in Callers \ {p} : lock = {q} /\ ENABLED StepOf(q)]_vars

C20_Witness ==
    \E p \in Callers : \E q \in Callers \ {p} :
        /\ Finished(p, "request")
        /\ login_calls[p] = 3
        /\ op_calls[p] = 3
        /\ Len(op_resps[p]) = 3
        /\ call[q] = "request"
        /\ pc[q] = "op_wait"

(* C21: within a request every response but the last has status 403, and   *)
(* a response of another status, 2xx or not, is the last: request has      *)
(* returned Ok with it. A login of the request is forced only when it      *)
(* follows a 403, and the login after each 403 is forced.                  *)
C21_OnlyForbiddenRetries ==
    \A p \in Callers :
        call[p] = "request"
        => /\ \A k \in DOMAIN op_resps[p] :
                op_resps[p][k] # FORBIDDEN
                => /\ k = Len(op_resps[p])
                   /\ k = op_calls[p]
                   /\ pc[p] = "idle"
                   /\ result[p] = "Ok"
           /\ \A k \in DOMAIN evals[p] :
                evals[p][k][1] <=> (k > 1 /\ op_resps[p][k - 1] = FORBIDDEN)
           /\ Len(evals[p]) <= Len(op_resps[p]) + 1

C21_Witness ==
    \E p \in Callers :
        /\ Finished(p, "request")
        /\ op_resps[p] = <<403, 500>>
        /\ Forces(p) = <<FALSE, TRUE>>
        /\ result[p] = "Ok"

(* C22: the state changes, and a login returns Ok having sent a call,      *)
(* only when the response to the login call had a 2xx status.              *)
C22_OnlySuccessStatusRecords ==
    [][\A p \in Callers :
        (pc[p] = "add_write" /\ state' # state)
        => is_success(unwrap(login_resp[p])[1])]_vars

(* C23: the step that builds an operation call holds the guard and gives   *)
(* the call the token the state holds at that moment, which is the cookie  *)
(* the handle was built with or the token the last completed login of any  *)
(* caller recorded; a call in flight always carries a token.               *)
C23_CallCarriesStoredToken ==
    [][\A p \in Callers :
        /\ pc[p] = "op_wait" => ~is_none(sent[p])
        /\ (pc[p] = "cookie_read" /\ pc'[p] = "op_wait")
           => /\ lock = {p}
              /\ ~is_none(sent'[p])
              /\ sent'[p] = as_cookie(state)
              /\ CookieBuilt => sent'[p] = Some(built.cookie)
              /\ CredentialBuilt => sent'[p] = recorded]_vars

C23_Witness ==
    \E p \in Callers :
        /\ CredentialBuilt
        /\ call[p] = "request"
        /\ pc[p] = "op_wait"
        /\ login_calls[p] = 0
        /\ attempt[p] = 0
        /\ sent[p] = Some(2)
        /\ issued = 3

(* C28, as stated: on a credential-built handle whose server answers      *)
(* every login with 2xx and a fresh token, whenever no caller is between   *)
(* sending a login call and recording its token, the cached token is the   *)
(* one the server issued last.                                             *)
C28_NewestTokenCached ==
    (/\ CredentialBuilt
     /\ ~deviated
     /\ \A p \in Callers : pc[p] \notin {"login_wait", "add", "add_write"})
    => (issued > 0 => as_cookie(state) = Some(issued))

(* C28, amended: on a credential-built handle the cached token is the one  *)
(* the login that completed last has recorded, a token the server issued   *)
(* to this handle: the login that records last wins, whichever token was   *)
(* issued later.                                                           *)
C28_LastRecordedTokenCached ==
    [][/\ CredentialBuilt
          => /\ as_cookie(state) = recorded
             /\ ~is_none(recorded) => unwrap(recorded) \in 1..issued
       /\ \A p \in Callers :
            (CredentialBuilt /\ pc[p] = "add_write" /\ pc'[p] # "add_write")
            => as_cookie(state') = cookie_in[p]]_vars

C28_Witness ==
    /\ CredentialBuilt
    /\ ~deviated
    /\ \A p \in Callers : Finished(p, "login") /\ login_calls[p] = 1
    /\ issued = 2
    /\ as_cookie(state) = Some(1)

(* C24: increase_, decrease_, maximal_ and minimal_priority return          *)
(* QueueingDisabled when the call is answered 409 and Ok(()) when it is    *)
(* answered any other status that is not 403, 2xx or not.                  *)
C24_PriorityUnmappedIsOk ==
    \A p \in Callers :
        (/\ Answered(p)
         /\ call[p] \in PriorityOperations
         /\ last_status(p) # FORBIDDEN)
        => /\ last_status(p) = 409 => result[p] = "QueueingDisabled"
           /\ last_status(p) # 409 => result[p] = "Ok"

C24_Witness ==
    \E p \in Callers :
        /\ Answered(p)
        /\ call[p] = "minimal_priority"
        /\ op_resps[p] = <<403, 500>>
        /\ result[p] = "Ok"

(* C27: whatever calls have ended on the handle, and however, the Mutex    *)
(* can be locked by the next call: it is not poisoned, and a get_cookie    *)
(* that has ended has returned.                                            *)
C27_HandleStaysUsable ==
    /\ ~poisoned
    /\ \A q \in Callers : Finished(q, "get_cookie") => result[q] = "Ok"

(* C25: when a caller drops its call while suspended on the login call or  *)
(* on the operation call, it does not hold the guard, and the drop leaves  *)
(* the state, the Mutex and its poison flag as they are; afterwards no     *)
(* idle caller holds the guard, and every caller that is running can take  *)
(* its next step or waits for a guard whose holder can drop it.            *)
C25_AbandonedCallHoldsNothing ==
    [][/\ \A p \in Callers :
            (pc[p] \in {"login_wait", "op_wait"} /\ result'[p] = "Abandoned")
            => /\ p \notin lock
               /\ lock' = lock
               /\ state' = state
               /\ poisoned' = poisoned
               /\ recorded' = recorded
       /\ \A p \in Callers : pc[p] = "idle" => p \notin lock
       /\ \A q \in Callers :
            pc[q] # "idle"
            => \/ ENABLED StepOf(q)
               \/ \E r \in Callers \ {q} : lock = {r} /\ ENABLED StepOf(r)]_vars

C25_Witness ==
    \E p \in Callers : \E q \in Callers \ {p} :
        /\ Finished(p, "request")
        /\ result[p] = "Abandoned"
        /\ login_calls[p] = 1
        /\ is_none(login_resp[p])
        /\ Finished(q, "request")
        /\ result[q] = "Ok"
        /\ login_calls[q] = 1
        /\ op_resps[q] = <<200>>

\* The retry protocol, of the call caller p is making or has made: what
\* logins and operation calls it has performed, given the answers so far.
RetryProtocol(p) ==
    /\ Len(evals[p]) <= 3
    /\ op_calls[p] <= 3
    /\ login_calls[p] <= Len(evals[p])
    /\ \A k \in DOMAIN evals[p] : evals[p][k][1] = (k # 1)
    /\ Len(evals[p]) \in {op_calls[p], op_calls[p] + 1}
    /\ Len(op_resps[p]) \in {op_calls[p], op_calls[p] - 1}
    /\ \A k \in DOMAIN op_resps[p] :
         op_resps[p][k] # FORBIDDEN => (k = op_calls[p] /\ pc[p] = "idle")
    /\ (pc[p] = "idle" /\ result[p] \notin {"Panic", "SerdeJsonError"})
       => IF ~login_ok[p]
          THEN /\ Len(evals[p]) = op_calls[p] + 1
               /\ Len(op_resps[p]) = op_calls[p]
               /\ result[p] \in {"HttpError", "IpBanned", "BadResponse", "NonAsciiHeader"}
          ELSE /\ Len(evals[p]) = op_calls[p]
               /\ IF Len(op_resps[p]) < op_calls[p]
                  THEN result[p] = "HttpError"
                  ELSE IF last_status(p) = FORBIDDEN
                       THEN op_calls[p] = 3 /\ result[p] = "NotLoggedIn"
                       ELSE result[p] \in {"Ok", "UnknownHttpCode"}

(* C29: add_torrent with torrent files and request follow one retry        *)
(* protocol: at most 3 attempts, login(i # 0) before the call of attempt   *)
(* i, a new attempt only after a 403, NotLoggedIn after the third 403, and *)
(* the return at once of a login error, a transport error or a response    *)
(* that is not 403; the logins and calls made are the same function of the *)
(* answers in both. request returns such a response as it is, add_torrent  *)
(* returns what end() makes of it.                                         *)
C29_AddTorrentRetriesAsRequest ==
    /\ \A p \in Callers : call[p] \in {"request", "add_torrent"} => RetryProtocol(p)
    /\ \A p \in Callers :
         (pc[p] = "idle" /\ call[p] \in {"request", "add_torrent"} /\ op_calls[p] > 0
          /\ Len(op_resps[p]) = op_calls[p] /\ last_status(p) # FORBIDDEN)
         => result[p] = IF call[p] = "request" \/ is_success(last_status(p))
                        THEN "Ok"
                        ELSE "UnknownHttpCode"

C29_Witness ==
    /\ Finished(Operator, "request")
    /\ Finished(Uploader, "add_torrent")
    /\ op_resps[Operator] = <<403, 500>>
    /\ op_resps[Uploader] = <<403, 500>>
    /\ Forces(Operator) = <<FALSE, TRUE>>
    /\ Forces(Uploader) = <<FALSE, TRUE>>
    /\ result[Operator] = "Ok"
    /\ result[Uploader] = "UnknownHttpCode"
    /\ code[Uploader] = Some(500)

\* The positions of request and add_torrent after login has returned Ok and
\* before the call is sent.
BuildSteps == {"cookie", "cookie_read", "torrent_form", "torrent_cookie", "torrent_cookie_read"}

(* C26: a state that holds a token holds one after every step; so when     *)
(* login has returned Ok in request or in add_torrent the state holds a    *)
(* token until the call is built, whatever the other caller does, and the  *)
(* expect("Cookie should be set after login") does not panic.              *)
C26_TokenNeverLost ==
    [][/\ ~is_none(as_cookie(state)) => ~is_none(as_cookie(state'))
       /\ \A p \in Callers :
            /\ pc[p] \in BuildSteps => ~is_none(as_cookie(state))
            /\ pc[p] \in {"cookie_read", "torrent_cookie_read"}
               => (result'[p] # "Panic" /\ ~poisoned')]_vars

C26_Witness ==
    /\ CredentialBuilt
    /\ pc[Uploader] = "torrent_cookie_read"
    /\ attempt[Uploader] = 0
    /\ login_calls[Uploader] = 0
    /\ pc[Operator] = "op_wait"
    /\ login_calls[Operator] = 2
    /\ as_cookie(state) = Some(2)

\* The elements of list in order with sep between neighbours, built from
\* the last element backwards.
RECURSIVE Joined(_, _)
Joined(list, sep) ==
    IF Len(list) = 0
    THEN <<>>
    ELSE IF Len(list) = 1
         THEN list[1]
         ELSE Joined(SubSeq(list, 1, Len(list) - 1), sep) \o <<sep>> \o list[Len(list)]

\* How often c occurs in the string s.
Occurrences(s, c) == Cardinality({k \in DOMAIN s : s[k] = c})

(* C30: when the display of a Sep<T, C> has ended, the text written is the *)
(* elements in order with C between neighbours: nothing for the empty      *)
(* list, the element alone for a list of one, and Len - 1 separators       *)
(* otherwise; when no element displays as the empty string the text        *)
(* neither begins nor ends with C.                                         *)
C30_SepDisplayJoins ==
    (~is_none(display) /\ unwrap(display).done)
    => LET d == unwrap(display)
       IN  /\ d.f = Joined(d.list, d.C)
           /\ Len(d.list) = 0 => d.f = <<>>
           /\ Len(d.list) = 1 => d.f = d.list[1]
           /\ Len(d.list) >= 1 => Occurrences(d.f, d.C) = Len(d.list) - 1
           /\ (Len(d.list) >= 1 /\ \A k \in DOMAIN d.list : d.list[k] # <<>>)
              => (d.f[1] # d.C /\ d.f[Len(d.f)] # d.C)

C30_Witness ==
    /\ ~is_none(display)
    /\ unwrap(display).done
    /\ unwrap(display).list = << <<"1">>, <<"2">>, <<"1", "2">> >>
    /\ unwrap(display).C = "|"
    /\ unwrap(display).f = <<"1", "|", "2", "|", "1", "2">>

====
